---- MODULE Spec2Model ----
(***************************************************************************)
(* A model of papr.hpp: the .papr tokenizer, the alignment driven tree     *)
(* builder (Papr::Parse), Node::Simplify, the serializer and the public    *)
(* Node operations, including the shared static Node::INVALID.             *)
(*                                                                         *)
(* A std::string is a sequence of one-character strings.  A Node is a      *)
(* record [type, text, children]; a Node* / Node& is a reference           *)
(* [obj, path]: the object that owns the node ("INVALID" for the static    *)
(* sentinel, "doc" for the caller's tree) and the child indices leading to *)
(* it.                                                                     *)
(***************************************************************************)
EXTENDS Integers, Sequences, FiniteSets, TLC

\* ------------------------------------------------------------------------
\* Characters
\* ------------------------------------------------------------------------
SP == " "
NL == "\n"
COLON == ":"
HASH == "#"
QUOTE == "\""
BSLASH == "\\"
\* '\0', the value used for "no previous / next character"
NUL == "NUL"

Min(a, b) == IF a < b THEN a ELSE b

\* std::string::find( ch, from ), 1-based; 0 stands for npos
RECURSIVE Find(_, _, _)
Find(s, ch, from) ==
    IF from > Len(s) THEN 0
    ELSE IF s[from] = ch THEN from
    ELSE Find(s, ch, from + 1)

\* std::string::substr( pos, count ) with a 0-based pos <= size.  A negative
\* count stands for a size_t that wrapped around (a value of 2^64 - 1 or
\* 2^64 - 2), which is larger than any length: the rest of the string.
SubStr(s, pos, count) ==
    IF count < 0 THEN SubSeq(s, pos + 1, Len(s))
    ELSE SubSeq(s, pos + 1, Min(pos + count, Len(s)))

StartsWith(s, ch) == Len(s) > 0 /\ s[1] = ch
EndsWith(s, ch) == Len(s) > 0 /\ s[Len(s)] = ch
Contains(s, ch) == \E i \in 1..Len(s) : s[i] = ch

\* ------------------------------------------------------------------------
\* Papr::Internal::Trim
\* ------------------------------------------------------------------------

\* The dedent loop of Trim: after every newline of a quoted token, erase
\* min( tokenStartCol, length of the line ) characters.
RECURSIVE TrimDedent(_, _, _)
TrimDedent(result, newLinePos, tokenStartCol) ==
    IF newLinePos = 0 THEN result
    ELSE LET start == newLinePos + 1
         IN IF start > Len(result) THEN result
            ELSE LET next == Find(result, NL, start)
                     length == IF next = 0 THEN Len(result) - start + 1
                                           ELSE next - start
                     n == Min(tokenStartCol, length)
                     erased == SubSeq(result, 1, start - 1)
                                 \o SubSeq(result, start + n, Len(result))
                 IN TrimDedent(erased, Find(erased, NL, start), tokenStartCol)

\* Lines 323-326: the token without its leading and trailing spaces and,
\* when it starts with a double quote, without that quote and the last one.
TrimUnquote(r) ==
    LET len == Len(r)
    IN SubStr(r, 1, len - (IF EndsWith(r, QUOTE) THEN 2 ELSE 1))

Trim(token, tokenStartCol) ==
    LET nonSpace == {i \in 1..Len(token) : token[i] # SP}
        start == IF nonSpace = {} THEN 1
                 ELSE CHOOSE i \in nonSpace : \A j \in nonSpace : i <= j
        end == IF nonSpace = {} THEN Len(token)
               ELSE CHOOSE i \in nonSpace : \A j \in nonSpace : i >= j
        result == SubSeq(token, start, end)
    IN IF StartsWith(result, QUOTE)
       THEN LET unq == TrimUnquote(result)
            IN TrimDedent(unq, Find(unq, NL, 1), tokenStartCol)
       ELSE result

\* ------------------------------------------------------------------------
\* Papr::Internal::Tokenize
\* ------------------------------------------------------------------------
\* isDelimiter without the hash
isDelimiterNoHash(c) == c = COLON \/ c = NL \/ c = NUL

isDelimiter(c) == c = COLON \/ c = NL \/ c = HASH \/ c = NUL

\* The locals of Tokenize before the first character
TokenizeInit ==
    [tokens |-> <<>>, partialToken |-> <<>>, charCol |-> 0, charLine |-> 1,
     tokenStartCol |-> 0, tokenStartLine |-> 0,
     inQuotes |-> FALSE, tokenHasContent |-> FALSE, inComment |-> FALSE]

\* One iteration of the loop of Tokenize, for the character data[i]
TokenizeChar(s, data, i) ==
    LET c == data[i]
        nc == IF i + 1 <= Len(data) THEN data[i + 1] ELSE NUL
        pc == IF i - 1 >= 1 THEN data[i - 1] ELSE NUL
        charCol == IF c = NL THEN 0 ELSE s.charCol + 1
        charLine == IF c = NL THEN s.charLine + 1 ELSE s.charLine
        isFirstCharInToken == ~s.tokenHasContent /\ c # SP /\ c # NL
        hasContent1 == s.tokenHasContent \/ isFirstCharInToken
        tokenStartCol == IF isFirstCharInToken THEN charCol ELSE s.tokenStartCol
        tokenStartLine == IF isFirstCharInToken THEN charLine ELSE s.tokenStartLine
        inQuotes1 == s.inQuotes \/ (isFirstCharInToken /\ c = QUOTE)
        inQuotes == inQuotes1
                      /\ ~(c = QUOTE /\ ~isFirstCharInToken /\ pc # BSLASH)
        inComment1 == s.inComment \/ (~inQuotes /\ c = HASH)
        endOfComment == inComment1 /\ c = NL
        inComment == inComment1 /\ ~endOfComment
        partial1 == IF endOfComment THEN <<>> ELSE s.partialToken
        hasContent2 == hasContent1 /\ ~endOfComment
        base == [s EXCEPT !.charCol = charCol, !.charLine = charLine,
                          !.tokenStartCol = tokenStartCol,
                          !.tokenStartLine = tokenStartLine,
                          !.inQuotes = inQuotes, !.inComment = inComment,
                          !.partialToken = partial1,
                          !.tokenHasContent = hasContent2]
    IN IF ~inComment /\ (inQuotes \/ ~isDelimiter(c))
       THEN LET partial2 == Append(partial1, c)
            IN IF ~inQuotes /\ isDelimiter(nc) /\ hasContent2
               THEN [base EXCEPT
                       !.tokens = Append(s.tokens,
                           [type |-> "Text", text |-> Trim(partial2, tokenStartCol),
                            column |-> tokenStartCol, line |-> tokenStartLine]),
                       !.partialToken = <<>>,
                       !.tokenHasContent = FALSE]
               ELSE [base EXCEPT !.partialToken = partial2]
       ELSE IF ~inComment /\ c = COLON
       THEN [base EXCEPT
               !.tokens = Append(s.tokens,
                   [type |-> "Colon", text |-> <<>>,
                    column |-> charCol, line |-> charLine]),
               !.partialToken = <<>>,
               !.tokenHasContent = FALSE]
       ELSE base

\* The locals of Tokenize after the characters data[1..i].  The locals
\* after data[1..i-1] are computed before the iteration for data[i] reads
\* them (charLine starts at 1 and never decreases).
RECURSIVE TokenizeScan(_, _)
TokenizeScan(data, i) ==
    IF i = 0 THEN TokenizeInit
    ELSE LET s == TokenizeScan(data, i - 1)
         IN IF s.charLine >= 1 THEN TokenizeChar(s, data, i) ELSE s

Tokenize(data) == TokenizeScan(data, Len(data)).tokens

\* ------------------------------------------------------------------------
\* Papr::Node
\* ------------------------------------------------------------------------

\* Node() : the default constructed node (m_type None, no text, no children)
DefaultNode == [type |-> "None", text |-> <<>>, children |-> <<>>]

MakeGroup == [type |-> "Group", text |-> <<>>, children |-> <<>>]
MakeKey(key) == [type |-> "Key", text |-> key, children |-> <<>>]
MakeValue(value) == [type |-> "Value", text |-> value, children |-> <<>>]

\* The node reached from n through the child indices of path
RECURSIVE NodeAt(_, _)
NodeAt(n, path) ==
    IF path = <<>> THEN n
    ELSE NodeAt(n.children[Head(path)], Tail(path))

\* n with the node at path replaced by new
RECURSIVE ReplaceAt(_, _, _)
ReplaceAt(n, path, new) ==
    IF path = <<>> THEN new
    ELSE [n EXCEPT !.children[Head(path)] = ReplaceAt(@, Tail(path), new)]

\* Node::AddNode on one node: a copy of node is pushed to the back
AddNode(n, node) == [n EXCEPT !.children = Append(@, node)]

\* Node::HasValue
HasValue(n) ==
    /\ n.type \in {"Key", "Group"}
    /\ Len(n.children) = 1
    /\ n.children[1].type = "Value"

\* Node::UpdateKey / Node::UpdateValue on one node
UpdateKey(n, key) == IF n.type = "Key" THEN [n EXCEPT !.text = key] ELSE n
UpdateValue(n, value) ==
    IF HasValue(n) THEN [n EXCEPT !.children[1].text = value] ELSE n

\* Node::RemoveNodeAtIndex (idx is 0-based and less than the child count)
RemoveNodeAtIndex(n, idx) ==
    [n EXCEPT !.children =
        SubSeq(@, 1, idx) \o SubSeq(@, idx + 2, Len(@))]

\* The size of a tree: its number of nodes plus the characters of its texts
RECURSIVE NodeSize(_)
RECURSIVE NodeSizeSeq(_)
NodeSize(n) == 1 + Len(n.text) + NodeSizeSeq(n.children)
NodeSizeSeq(s) ==
    IF s = <<>> THEN 0 ELSE NodeSize(Head(s)) + NodeSizeSeq(Tail(s))

\* ------------------------------------------------------------------------
\* Node::Simplify
\* ------------------------------------------------------------------------

\* CombinedText with the separating space forgotten
RECURSIVE CombinedTextNoSeparator(_)
CombinedTextNoSeparator(kids) ==
    IF kids = <<>> THEN <<>>
    ELSE kids[1].text \o CombinedTextNoSeparator(Tail(kids))

\* Lines 756-762: the children's texts joined by single spaces
RECURSIVE CombinedText(_)
CombinedText(kids) ==
    IF kids = <<>> THEN <<>>
    ELSE IF Len(kids) = 1 THEN kids[1].text
    ELSE kids[1].text \o <<SP>> \o CombinedText(Tail(kids))

\* Lines 733-738: a key whose only child is a group takes the group's
\* children
SimplifyCollapse(n) ==
    IF n.type = "Key" /\ Len(n.children) = 1 /\ n.children[1].type = "Group"
    THEN [n EXCEPT !.children = n.children[1].children]
    ELSE n

\* SimplifyMerge asking for more than two children (> 2 for > 1)
SimplifyMergeMoreThanTwo(n) ==
    IF /\ n.type \in {"Key", "Group"}
       /\ Len(n.children) > 2
       /\ \A i \in 1..Len(n.children) : n.children[i].type = "Value"
    THEN [n EXCEPT !.children = <<MakeValue(CombinedText(n.children))>>]
    ELSE n

\* Lines 742-766: a key or group with two or more children, all of them
\* values, keeps one value with the combined text
SimplifyMerge(n) ==
    IF /\ n.type \in {"Key", "Group"}
       /\ Len(n.children) > 1
       /\ \A i \in 1..Len(n.children) : n.children[i].type = "Value"
    THEN [n EXCEPT !.children = <<MakeValue(CombinedText(n.children))>>]
    ELSE n

\* Lines 769-772: a key without children becomes a value
SimplifyCoerce(n) ==
    IF n.type = "Key" /\ Len(n.children) = 0
    THEN [n EXCEPT !.type = "Value"]
    ELSE n

\* Simplify with the rule for childless keys applied before the other two
RECURSIVE SimplifyCoerceFirst(_)
SimplifyCoerceFirst(n) ==
    LET kids == [i \in 1..Len(n.children) |-> SimplifyCoerceFirst(n.children[i])]
    IN SimplifyMerge(SimplifyCollapse(SimplifyCoerce(
           [n EXCEPT !.children = kids])))

RECURSIVE Simplify(_)
Simplify(n) ==
    LET kids == [i \in 1..Len(n.children) |-> Simplify(n.children[i])]
    IN SimplifyCoerce(SimplifyMerge(SimplifyCollapse(
           [n EXCEPT !.children = kids])))

\* Node::SimplifyCopy
SimplifyCopy(n) == Simplify(n)

\* ------------------------------------------------------------------------
\* Papr::Parse
\* ------------------------------------------------------------------------

\* The token of the bottom frame: Internal::Token { } (type None, column 0)
RootToken == [type |-> "None", text |-> <<>>, column |-> 0, line |-> 0]

\* The stack of Parse before the first token: the frame of the root
StackInit == <<[token |-> RootToken, node |-> <<>>]>>

\* seekFn accepting a frame at the column of the token (<= for <)
RECURSIVE seekFnNotStrict(_, _, _)
seekFnNotStrict(stack, col, token_type_flag) ==
    IF stack = <<>> THEN <<>>
    ELSE LET back == stack[Len(stack)]
         IN IF back.token.column <= col /\ back.token.type \in token_type_flag
            THEN stack
            ELSE seekFnNotStrict(SubSeq(stack, 1, Len(stack) - 1), col,
                                 token_type_flag)

\* seekFn without the test on the column
RECURSIVE seekFnAnyColumn(_, _, _)
seekFnAnyColumn(stack, col, token_type_flag) ==
    IF stack = <<>> THEN <<>>
    ELSE LET back == stack[Len(stack)]
         IN IF back.token.type \in token_type_flag
            THEN stack
            ELSE seekFnAnyColumn(SubSeq(stack, 1, Len(stack) - 1), col,
                                 token_type_flag)

\* seekFn: pops frames until the top has a smaller column and one of the
\* types of token_type_flag; the stack that is left (empty: nullptr)
RECURSIVE seekFn(_, _, _)
seekFn(stack, col, token_type_flag) ==
    IF stack = <<>> THEN <<>>
    ELSE LET back == stack[Len(stack)]
         IN IF back.token.column < col /\ back.token.type \in token_type_flag
            THEN stack
            ELSE seekFn(SubSeq(stack, 1, Len(stack) - 1), col, token_type_flag)

\* SeekFlags letting a colon attach to the root as a text does
SeekFlagsColonAtRoot(token) ==
    IF token.type = "Text" THEN {"Colon", "None"} ELSE {"Text", "None"}

\* The types a token looks for on the stack (lines 234 and 254)
SeekFlags(token) ==
    IF token.type = "Text" THEN {"Colon", "None"} ELSE {"Text"}

\* ParseToken with a seekFn that works on a copy of the stack ([stack] for
\* [&stack]): the frames it popped are still there when the new one is pushed
ParseTokenKeepFrames(st, token) ==
    LET stk == seekFn(st.stack, token.column, SeekFlags(token))
    IN IF stk = <<>>
       THEN [st EXCEPT !.stack = stk, !.failed = TRUE]
       ELSE LET at == stk[Len(stk)].node
                parent == NodeAt(st.root, at)
                child == IF token.type = "Text" THEN MakeKey(token.text)
                                                ELSE MakeGroup
            IN [root |-> ReplaceAt(st.root, at, AddNode(parent, child)),
                stack |-> Append(st.stack,
                            [token |-> token,
                             node |-> Append(at, Len(parent.children) + 1)]),
                failed |-> FALSE]

\* One iteration of the token loop of Parse on the locals
\* [root, stack, failed]
ParseToken(st, token) ==
    LET stk == seekFn(st.stack, token.column, SeekFlags(token))
    IN IF stk = <<>>
       THEN [st EXCEPT !.stack = stk, !.failed = TRUE]
       ELSE LET at == stk[Len(stk)].node
                parent == NodeAt(st.root, at)
                child == IF token.type = "Text" THEN MakeKey(token.text)
                                                ELSE MakeGroup
            IN [root |-> ReplaceAt(st.root, at, AddNode(parent, child)),
                stack |-> Append(stk,
                            [token |-> token,
                             node |-> Append(at, Len(parent.children) + 1)]),
                failed |-> FALSE]

ParseInit == [root |-> DefaultNode, stack |-> StackInit, failed |-> FALSE]

\* The locals of Parse after the token loop (it stops at the first failure)
RECURSIVE ParseLoop(_, _, _)
ParseLoop(st, tokens, i) ==
    IF i > Len(tokens) \/ st.failed THEN st
    ELSE ParseLoop(ParseToken(st, tokens[i]), tokens, i + 1)

\* ParseResult returning the root built so far after a failure
ParseResultPartial(st, invalid) == Simplify(st.root)

\* What Parse returns for the locals st: a copy of Node::INVALID (whose
\* current value is invalid) after a failure, the simplified root otherwise
ParseResult(st, invalid) == IF st.failed THEN invalid ELSE Simplify(st.root)

\* Papr::Parse( data ), with the current value of Node::INVALID
Parse(data, invalid) ==
    ParseResult(ParseLoop(ParseInit, Tokenize(data), 1), invalid)

ParseFails(data) == ParseLoop(ParseInit, Tokenize(data), 1).failed

\* ------------------------------------------------------------------------
\* Papr::Serialize
\* ------------------------------------------------------------------------

\* A run of 2^32 - 2 or 2^32 - 1 spaces, written as one element
WrappedSpaces(count) ==
    IF count = -2 THEN <<"<4294967294 spaces>">> ELSE <<"<4294967295 spaces>">>

\* add_spaces_fn: count spaces.  count is a uint32_t: a negative count
\* stands for count + 2^32.
AddSpaces(count) ==
    IF count < 0 THEN WrappedSpaces(count) ELSE [i \in 1..count |-> SP]

\* The loop of sanitize_string over the characters of text
RECURSIVE SanitizeChars(_, _)
SanitizeChars(text, col) ==
    IF text = <<>> THEN <<>>
    ELSE LET c == Head(text)
             e == IF c = QUOTE THEN <<BSLASH, QUOTE>>
                  ELSE IF c = NL THEN <<NL>> \o AddSpaces(col)
                  ELSE <<c>>
         IN e \o SanitizeChars(Tail(text), col)

\* The condition of sanitize_string: the text has to be wrapped in quotes
NeedsQuotes(text) ==
    \/ Contains(text, COLON)
    \/ Contains(text, HASH)
    \/ Contains(text, NL)
    \/ StartsWith(text, QUOTE)
    \/ StartsWith(text, SP)
    \/ EndsWith(text, SP)

sanitize_string(text, col) ==
    IF NeedsQuotes(text)
    THEN <<QUOTE>> \o SanitizeChars(text, col) \o <<QUOTE>>
    ELSE text

\* SerializeRecursive( depth, node, out ): what it appends to out.
\* SerializeChildren renders the children kids[i..] of one node.
RECURSIVE SerializeChildren(_, _, _)
SerializeRecursive(depth, node) == SerializeChildren(depth, node.children, 1)
SerializeChildren(depth, kids, i) ==
    IF i > Len(kids) THEN <<>>
    ELSE LET child == kids[i]
             pad == IF i # 1 THEN AddSpaces(depth) ELSE <<>>
             this ==
               IF child.type = "Key"
               THEN LET sanitized_key == sanitize_string(child.text, depth + 1)
                    IN pad \o sanitized_key \o <<COLON, SP>>
                         \o SerializeChildren(depth + Len(sanitized_key) + 2,
                                              child.children, 1)
               ELSE IF child.type = "Value"
               THEN pad \o sanitize_string(child.text, depth + 1) \o <<NL>>
               ELSE IF child.type = "Group"
               THEN (IF i # 1 THEN AddSpaces(depth - 2) \o <<COLON, SP>>
                              ELSE <<>>)
                      \o SerializeChildren(depth, child.children, 1)
               ELSE <<>>
         IN this \o SerializeChildren(depth, kids, i + 1)

\* Papr::Serialize
Serialize(node) == SerializeRecursive(0, SimplifyCopy(node))

\* ------------------------------------------------------------------------
\* References and lookups
\* ------------------------------------------------------------------------

\* &Node::INVALID, and the address of the caller's own Node object
InvalidRef == [obj |-> "INVALID", path |-> <<>>]
DocRef == [obj |-> "doc", path |-> <<>>]

\* Node::IsInvalid: this == &INVALID
IsInvalid(r) == r = InvalidRef

\* operator[]( size_t index ) on the node n that r refers to
IndexByPosition(r, n, index) ==
    IF index < Len(n.children)
    THEN [obj |-> r.obj, path |-> Append(r.path, index + 1)]
    ELSE InvalidRef

\* The loop of operator[]( key ) without the test of the child's type
RECURSIVE IndexByKeyFromAnyType(_, _, _, _)
IndexByKeyFromAnyType(r, n, key, i) ==
    IF i > Len(n.children) THEN InvalidRef
    ELSE IF n.children[i].text = key
    THEN [obj |-> r.obj, path |-> Append(r.path, i)]
    ELSE IndexByKeyFromAnyType(r, n, key, i + 1)

\* The loop of operator[]( const std::string& key ) from child i on
RECURSIVE IndexByKeyFrom(_, _, _, _)
IndexByKeyFrom(r, n, key, i) ==
    IF i > Len(n.children) THEN InvalidRef
    ELSE IF n.children[i].type = "Key" /\ n.children[i].text = key
    THEN [obj |-> r.obj, path |-> Append(r.path, i)]
    ELSE IndexByKeyFrom(r, n, key, i + 1)

\* operator[]( const std::string& key ) on the node n that r refers to
IndexByKey(r, n, key) == IndexByKeyFrom(r, n, key, 1)

\* ------------------------------------------------------------------------
\* Bounds and input sets
\* ------------------------------------------------------------------------

\* Longest document of the specification SpecDocs
MaxLen == 5
\* Longest value text of the specification SpecSanitize
MaxTextLen == 3
\* Rightmost column of a leading colon or continuation text (SpecLayout)
MaxCol == 7
\* Largest size (nodes plus characters of text) the caller's tree and the
\* sentinel reach together through Add* and Update* calls (Spec)
MaxSize == 4
\* Largest index passed to operator[] and RemoveNodeAtIndex (Spec)
MaxIndex == 2

\* Most leading-colon lines of an array document, and most continuation
\* lines of a paragraph document (SpecLayout)
MaxLines == 2
\* Most Parse calls of one run of SpecDocs, SpecLayout or SpecSanitize
MaxParses == 2

Alphabet == {"a", SP, COLON, HASH, QUOTE, BSLASH, NL}

Strings(n) == UNION {[1..k -> Alphabet] : k \in 0..n}

\* Key names and value texts the caller passes to the Node operations
Texts == {<<>>, <<"a">>}

\* Documents the caller parses in Spec: well-formed ones and malformed ones
ApiDocs == {<<"a">>, <<"a", COLON, "a">>, <<COLON>>, <<COLON, "a">>, <<>>}

VARIABLES
    INVALID,    \* the value of the static Node::INVALID
    doc,        \* the caller's Node object (a tree it built or got from Parse)
    ref,        \* the reference the caller holds: the receiver of the next call
    last,       \* the last call: [op, recv, arg] (arg of Serialize: its result)
    out,        \* the string Serialize returned to the run
    input,      \* what the run started from: [family, ...]
    data,       \* the argument of the running Parse
    tokens,     \* Parse: the result of Tokenize( data )
    idx,        \* Parse: the index of the next token of the loop
    st,         \* Parse: the locals [root, stack, failed]
    pc,         \* where the run is
    parsed      \* the results of the Parse calls finished so far: [node, ok]

vars == <<INVALID, doc, ref, last, out, input, data, tokens, idx, st, pc, parsed>>

NoCall == [op |-> "none", recv |-> DocRef, arg |-> <<>>]

\* The node a reference refers to
Deref(r) == NodeAt(IF r.obj = "INVALID" THEN INVALID ELSE doc, r.path)

\* The size of everything the caller can reach
Size == NodeSize(doc) + NodeSize(INVALID)

\* ------------------------------------------------------------------------
\* Spec: a caller working on its tree through the public Node operations
\* ------------------------------------------------------------------------
pipeVars == <<input, data, tokens, idx, st, pc, parsed>>

Init ==
    /\ INVALID = DefaultNode
    /\ doc = DefaultNode
    /\ ref = DocRef
    /\ last = NoCall
    /\ out = <<>>
    /\ input = [family |-> "api"]
    /\ data = <<>>
    /\ tokens = <<>>
    /\ idx = 1
    /\ st = ParseInit
    /\ pc = "api"
    /\ parsed = <<>>

\* A write through the reference r: the node it refers to becomes new
Assign(r, new) ==
    /\ INVALID' = IF r.obj = "INVALID" THEN ReplaceAt(INVALID, r.path, new)
                                       ELSE INVALID
    /\ doc' = IF r.obj = "doc" THEN ReplaceAt(doc, r.path, new) ELSE doc

\* The reference AddNode returns: the new last child of the node at r
BackRef(r) ==
    [obj |-> r.obj, path |-> Append(r.path, Len(Deref(r).children) + 1)]

\* ref[ index ]
CallIndexByPosition(index) ==
    /\ pc = "api"
    /\ ref' = IndexByPosition(ref, Deref(ref), index)
    /\ last' = [op |-> "IndexByPosition", recv |-> ref, arg |-> index]
    /\ UNCHANGED <<INVALID, doc, out>>
    /\ UNCHANGED pipeVars

\* ref[ key ]
CallIndexByKey(key) ==
    /\ pc = "api"
    /\ ref' = IndexByKey(ref, Deref(ref), key)
    /\ last' = [op |-> "IndexByKey", recv |-> ref, arg |-> key]
    /\ UNCHANGED <<INVALID, doc, out>>
    /\ UNCHANGED pipeVars

\* ref.UpdateKey( key )
CallUpdateKey(key) ==
    /\ pc = "api"
    /\ Size + Len(key) <= MaxSize
    /\ Assign(ref, UpdateKey(Deref(ref), key))
    /\ last' = NoCall
    /\ UNCHANGED <<ref, out>>
    /\ UNCHANGED pipeVars

\* ref.UpdateValue( value )
CallUpdateValue(value) ==
    /\ pc = "api"
    /\ Size + Len(value) <= MaxSize
    /\ Assign(ref, UpdateValue(Deref(ref), value))
    /\ last' = NoCall
    /\ UNCHANGED <<ref, out>>
    /\ UNCHANGED pipeVars

\* ref.AddNode( node ), the caller keeping the reference it returns
CallAdd(node) ==
    /\ pc = "api"
    /\ Size + NodeSize(node) <= MaxSize
    /\ Assign(ref, AddNode(Deref(ref), node))
    /\ ref' = BackRef(ref)
    /\ last' = NoCall
    /\ UNCHANGED out
    /\ UNCHANGED pipeVars

\* ref.AddKey( key ), ref.AddValue( value ), ref.AddGroup()
CallAddKey(key) == CallAdd(MakeKey(key))
CallAddValue(value) == CallAdd(MakeValue(value))
CallAddGroup == CallAdd(MakeGroup)

\* ref.AddNode( doc ): a copy of the caller's whole tree is added
CallAddNode == CallAdd(doc)

\* ref.RemoveNodeAtIndex( index ), called with an index of a child
CallRemoveNodeAtIndex(index) ==
    /\ pc = "api"
    /\ index < Len(Deref(ref).children)
    /\ Assign(ref, RemoveNodeAtIndex(Deref(ref), index))
    /\ last' = NoCall
    /\ UNCHANGED <<ref, out>>
    /\ UNCHANGED pipeVars

\* ref.Simplify()
CallSimplify ==
    /\ pc = "api"
    /\ Assign(ref, Simplify(Deref(ref)))
    /\ last' = NoCall
    /\ UNCHANGED <<ref, out>>
    /\ UNCHANGED pipeVars

\* doc = Papr::Parse( d )
CallParse(d) ==
    /\ pc = "api"
    /\ doc' = Parse(d, INVALID)
    /\ ref' = DocRef
    /\ last' = [op |-> "Parse", recv |-> DocRef, arg |-> d]
    /\ UNCHANGED <<INVALID, out>>
    /\ UNCHANGED pipeVars

\* Papr::Serialize( ref ); the string it returns is kept in last.arg
CallSerialize ==
    /\ pc = "api"
    /\ last' = [op |-> "Serialize", recv |-> ref, arg |-> Serialize(Deref(ref))]
    /\ UNCHANGED <<INVALID, doc, ref, out>>
    /\ UNCHANGED pipeVars

\* doc = Node(), Node::MakeGroup(), Node::MakeKey( t ) or Node::MakeValue( t )
NewDoc(node) ==
    /\ pc = "api"
    /\ doc' = node
    /\ ref' = DocRef
    /\ last' = NoCall
    /\ UNCHANGED <<INVALID, out>>
    /\ UNCHANGED pipeVars

\* The caller goes back to its own object: ref = doc
TakeDocRef ==
    /\ pc = "api"
    /\ ref' = DocRef
    /\ last' = NoCall
    /\ UNCHANGED <<INVALID, doc, out>>
    /\ UNCHANGED pipeVars

Next ==
    \/ \E index \in 0..MaxIndex : CallIndexByPosition(index)
    \/ \E key \in Texts : CallIndexByKey(key)
    \/ \E key \in Texts : CallUpdateKey(key)
    \/ \E value \in Texts : CallUpdateValue(value)
    \/ \E key \in Texts : CallAddKey(key)
    \/ \E value \in Texts : CallAddValue(value)
    \/ CallAddGroup
    \/ CallAddNode
    \/ \E index \in 0..MaxIndex : CallRemoveNodeAtIndex(index)
    \/ CallSimplify
    \/ \E d \in ApiDocs : CallParse(d)
    \/ CallSerialize
    \/ \E node \in {DefaultNode, MakeGroup} \cup {MakeKey(t) : t \in Texts}
                     \cup {MakeValue(t) : t \in Texts} : NewDoc(node)
    \/ TakeDocRef

Spec == Init /\ [][Next]_vars

\* ------------------------------------------------------------------------
\* Runs of Parse and Serialize on one input (SpecDocs, SpecLayout,
\* SpecSanitize).  The token loop of Parse is taken one token at a time.
\* ------------------------------------------------------------------------
Spaces(n) == [i \in 1..n |-> SP]

Letters == <<"a", "b", "c", "d", "e">>

\* "k: a" with the key at column kcol, followed by one line per element of
\* cols: a leading colon at that column, a space and the next letter
RECURSIVE ColonLines(_, _)
ColonLines(cols, j) ==
    IF j > Len(cols) THEN <<>>
    ELSE Spaces(cols[j] - 1) \o <<COLON, SP, Letters[j + 1], NL>>
           \o ColonLines(cols, j + 1)

ArrayDoc(kcol, cols) ==
    Spaces(kcol - 1) \o <<"k", COLON, SP, "a", NL>> \o ColonLines(cols, 1)

\* The text of continuation line j as it is written in the document: the
\* first one has an interior space and a trailing space
LineText(j) ==
    IF j = 1 THEN <<"b", SP, "c", SP>> ELSE <<Letters[j + 2]>>

\* "k: a" (after "j: " when nested), followed by one line per element of
\* cols: a text without colon starting at that column
RECURSIVE TextLines(_, _)
TextLines(cols, j) ==
    IF j > Len(cols) THEN <<>>
    ELSE Spaces(cols[j] - 1) \o LineText(j) \o <<NL>> \o TextLines(cols, j + 1)

ParagraphDoc(nested, cols) ==
    (IF nested THEN <<"j", COLON, SP>> ELSE <<>>)
       \o <<"k", COLON, SP, "a", SP, NL>> \o TextLines(cols, 1)

\* The tree a caller builds for the key name key and the value text s:
\* Node root; root.AddKey( key ).AddValue( s )
ValueTree(key, s) == AddNode(DefaultNode, AddNode(MakeKey(key), MakeValue(s)))

\* The document of an input
DocOf(in) ==
    CASE in.family = "text" -> in.text
      [] in.family = "array" -> ArrayDoc(in.kcol, in.cols)
      [] in.family = "paragraph" -> ParagraphDoc(in.nested, in.cols)
      [] OTHER -> <<>>

ColumnSeqs == UNION {[1..n -> 1..MaxCol] : n \in 1..MaxLines}

TextInputs == {[family |-> "text", text |-> s] : s \in Strings(MaxLen)}
ArrayInputs ==
    {[family |-> "array", kcol |-> k, cols |-> c] : k \in 1..2, c \in ColumnSeqs}
ParagraphInputs ==
    {[family |-> "paragraph", nested |-> b, cols |-> c] :
        b \in BOOLEAN, c \in ColumnSeqs}
ValueInputs ==
    {[family |-> "value", key |-> k, text |-> s] :
        k \in {<<"k">>, <<>>}, s \in Strings(MaxTextLen)}

InitRun(inputs, first) ==
    /\ INVALID = DefaultNode
    /\ input \in inputs
    /\ doc = IF input.family = "value" THEN ValueTree(input.key, input.text)
                                       ELSE DefaultNode
    /\ ref = DocRef
    /\ last = NoCall
    /\ out = <<>>
    /\ data = <<>>
    /\ tokens = <<>>
    /\ idx = 1
    /\ st = ParseInit
    /\ pc = first
    /\ parsed = <<>>

\* Parse is called: on the input document, or on what Serialize returned
ParseBegin ==
    /\ pc \in {"start", "serialized"}
    /\ Len(parsed) < MaxParses
    /\ data' = IF pc = "start" THEN DocOf(input) ELSE out
    /\ tokens' = Tokenize(data')
    /\ idx' = 1
    /\ st' = ParseInit
    /\ pc' = "loop"
    /\ UNCHANGED <<INVALID, doc, ref, last, out, input, parsed>>

\* One token of the loop finds its anchor
ParseStep ==
    /\ pc = "loop"
    /\ idx <= Len(tokens)
    /\ ~ParseToken(st, tokens[idx]).failed
    /\ st' = ParseToken(st, tokens[idx])
    /\ idx' = idx + 1
    /\ UNCHANGED <<INVALID, doc, ref, last, out, input, data, tokens, pc, parsed>>

\* One token of the loop finds no anchor: return Node::INVALID, by value,
\* into the caller's object
ParseFail ==
    /\ pc = "loop"
    /\ idx <= Len(tokens)
    /\ ParseToken(st, tokens[idx]).failed
    /\ st' = ParseToken(st, tokens[idx])
    /\ doc' = ParseResult(st', INVALID)
    /\ ref' = DocRef
    /\ parsed' = Append(parsed, [node |-> doc', ok |-> FALSE])
    /\ pc' = "returned"
    /\ UNCHANGED <<INVALID, last, out, input, data, tokens, idx>>

\* The loop is over: root.Simplify(); return root
ParseReturn ==
    /\ pc = "loop"
    /\ idx > Len(tokens)
    /\ doc' = ParseResult(st, INVALID)
    /\ ref' = DocRef
    /\ parsed' = Append(parsed, [node |-> doc', ok |-> TRUE])
    /\ pc' = "returned"
    /\ UNCHANGED <<INVALID, last, out, input, data, tokens, idx, st>>

\* out = Papr::Serialize( doc )
RunSerialize ==
    /\ pc \in {"built", "returned"}
    /\ Len(parsed) < MaxParses
    /\ out' = Serialize(doc)
    /\ pc' = "serialized"
    /\ UNCHANGED <<INVALID, doc, ref, last, input, data, tokens, idx, st, parsed>>

NextRun == ParseBegin \/ ParseStep \/ ParseFail \/ ParseReturn \/ RunSerialize

\* Every document of at most MaxLen characters is parsed, serialized and
\* parsed again
SpecDocs == InitRun(TextInputs, "start") /\ [][NextRun]_vars

\* The array and paragraph documents are parsed, serialized and parsed again
SpecLayout ==
    InitRun(ArrayInputs \cup ParagraphInputs, "start") /\ [][NextRun]_vars

\* The documents of SpecDocs and of SpecLayout together
SpecParse ==
    InitRun(TextInputs \cup ArrayInputs \cup ParagraphInputs, "start")
        /\ [][NextRun]_vars

\* A key with one value text is serialized and parsed
SpecSanitize == InitRun(ValueInputs, "built") /\ [][NextRun]_vars

\* ------------------------------------------------------------------------
\* Properties
\* ------------------------------------------------------------------------

\* The result of the latest Parse of the run
LastParsed == parsed[Len(parsed)]

\* C1: round trip.  For every document whose Parse succeeds, parsing what
\* Serialize renders for the parsed tree succeeds and gives a structurally
\* equal tree.
RoundTrip ==
    (Len(parsed) >= 2 /\ parsed[1].ok) =>
        (parsed[2].ok /\ parsed[2].node = parsed[1].node)

\* C2: the node Parse returns is the invalid sentinel by the identity check
\* exactly when the document is malformed.
ParseReturnsSentinel ==
    (pc = "returned") => (IsInvalid(ref) <=> ~LastParsed.ok)

\* C3: Node::INVALID is never written through: it keeps kind None, an empty
\* text and no children whatever the caller does.
SentinelNeverWritten == INVALID = DefaultNode

\* C4: Parse is a pure function of its text: whatever was called before, a
\* Parse call returns what the same call returns in a fresh program.
ParseIsPure ==
    (last.op = "Parse") => (doc = Parse(last.arg, DefaultNode))

\* A key whose only child is a group whose only child is a group, anywhere
\* in the tree n
RECURSIVE HasGroupChain(_)
HasGroupChain(n) ==
    \/ /\ n.type = "Key"
       /\ Len(n.children) = 1
       /\ n.children[1].type = "Group"
       /\ Len(n.children[1].children) = 1
       /\ n.children[1].children[1].type = "Group"
    \/ \E i \in 1..Len(n.children) : HasGroupChain(n.children[i])

RECURSIVE HasType(_, _)
HasType(n, t) ==
    n.type = t \/ \E i \in 1..Len(n.children) : HasType(n.children[i], t)

\* C5 as claimed: simplification is idempotent on any tree built from
\* Group, Key and Value nodes: simplifying twice gives what simplifying
\* once gives.
SimplifyIdempotent == Simplify(Simplify(doc)) = Simplify(doc)

\* C5, amended: simplification is idempotent on every tree in which no key
\* has as its only child a group whose only child is a group (the trees of
\* the Tree Builder are such trees: the children of their groups are keys).
SimplifyIdempotentNoGroupChain ==
    ~HasGroupChain(doc) => Simplify(Simplify(doc)) = Simplify(doc)

\* A tree without group chain, holding a group, that Simplify changes
SimplifyIdempotentWitness ==
    /\ ~HasGroupChain(doc)
    /\ HasType(doc, "Group")
    /\ Simplify(doc) # doc
    /\ Simplify(Simplify(doc)) = Simplify(doc)

\* The tree the array documents stand for: the key k with one scalar-valued
\* group per colon, holding the letters in order
ArrayTree(n) ==
    AddNode(DefaultNode,
        [type |-> "Key", text |-> <<"k">>,
         children |-> [i \in 1..n |->
                          AddNode(MakeGroup, MakeValue(<<Letters[i]>>))]])

\* The column at which the value text of line j of an array document starts
\* (line 0 is the line of the key)
ValueColumn(in, j) == IF j = 0 THEN in.kcol + 3 ELSE in.cols[j] + 2

ArrayParsed ==
    /\ LastParsed.ok
    /\ doc = ArrayTree(Len(input.cols) + 1)

\* C6 as claimed: an array document parses to the key with one scalar-valued
\* group per colon for every placement of the leading colons at a column
\* strictly greater than the column of the key.
ArrayAnyPlacement ==
    (/\ pc = "returned"
     /\ Len(parsed) = 1
     /\ input.family = "array"
     /\ \A j \in 1..Len(input.cols) : input.cols[j] > input.kcol)
    => ArrayParsed

\* C6, amended: ... for every placement in which each leading colon is at a
\* column strictly greater than the column of the key and not greater than
\* the column at which the value text of the preceding line starts.
ArrayPlacementUpToValue ==
    (/\ pc = "returned"
     /\ Len(parsed) = 1
     /\ input.family = "array"
     /\ \A j \in 1..Len(input.cols) :
           /\ input.cols[j] > input.kcol
           /\ input.cols[j] <= ValueColumn(input, j - 1))
    => ArrayParsed

\* Two leading colons, neither under the establishing colon, have given
\* the array
ArrayPlacementWitness ==
    /\ pc = "returned"
    /\ Len(parsed) = 1
    /\ input.family = "array"
    /\ Len(input.cols) = 2
    /\ \A j \in 1..2 :
          /\ input.cols[j] > input.kcol + 1
          /\ input.cols[j] <= ValueColumn(input, j - 1)
    /\ ArrayParsed

\* s without its leading and trailing spaces
RECURSIVE StripSpaces(_)
StripSpaces(s) ==
    IF s = <<>> THEN s
    ELSE IF Head(s) = SP THEN StripSpaces(Tail(s))
    ELSE IF s[Len(s)] = SP THEN StripSpaces(SubSeq(s, 1, Len(s) - 1))
    ELSE s

\* "a" and the stripped texts of the n continuation lines, with one space
\* between two texts
RECURSIVE ParagraphText(_)
ParagraphText(n) ==
    IF n = 0 THEN <<"a">>
    ELSE ParagraphText(n - 1) \o <<SP>> \o StripSpaces(LineText(n))

\* The column of the establishing colon of the key k of a paragraph document
ParagraphColon(in) == IF in.nested THEN 5 ELSE 2

\* The node of the key k in the tree parsed from a paragraph document
ParagraphKey(in) ==
    IF in.nested THEN doc.children[1].children[1] ELSE doc.children[1]

\* C7: paragraph merge.  When the continuation lines of a leaf value start
\* to the right of the establishing colon of its key, the key is
\* scalar-valued and its value is the stripped texts of all the lines joined
\* by single spaces, in order.
ParagraphMerge ==
    (/\ pc = "returned"
     /\ Len(parsed) = 1
     /\ input.family = "paragraph"
     /\ \A j \in 1..Len(input.cols) : input.cols[j] > ParagraphColon(input))
    => /\ LastParsed.ok
       /\ ParagraphKey(input).type = "Key"
       /\ ParagraphKey(input).text = <<"k">>
       /\ HasValue(ParagraphKey(input))
       /\ ParagraphKey(input).children[1].text
            = ParagraphText(Len(input.cols))

\* A nested key with two continuation lines at different columns has been
\* parsed
ParagraphMergeWitness ==
    /\ pc = "returned"
    /\ Len(parsed) = 1
    /\ input.family = "paragraph"
    /\ input.nested
    /\ Len(input.cols) = 2
    /\ input.cols[1] > ParagraphColon(input)
    /\ input.cols[2] > input.cols[1]
    /\ HasValue(ParagraphKey(input))

\* C8: sanitization is the inverse of the tokenizer's quoting.  The value s
\* of the key k is rendered in double quotes exactly when it contains a
\* colon, a hash or a newline, starts or ends with a space or starts with a
\* double quote, and bare otherwise; parsing what Serialize renders gives
\* the key k, scalar-valued, with the value s.
SanitizeInverse ==
    (input.family = "value" /\ input.key = <<"k">>) =>
       /\ (pc = "serialized" /\ Len(parsed) = 0) =>
             LET rendered == SubSeq(out, 4, Len(out) - 1)
             IN IF NeedsQuotes(input.text)
                THEN StartsWith(rendered, QUOTE) /\ EndsWith(rendered, QUOTE)
                       /\ Len(rendered) >= Len(input.text) + 2
                ELSE rendered = input.text
       /\ (pc = "returned" /\ Len(parsed) = 1) =>
             /\ LastParsed.ok
             /\ doc = ValueTree(<<"k">>, input.text)

\* The positions of the unquoted hashes of d: the '#' characters the scan
\* meets outside quote mode
UnquotedHashes(d) ==
    {i \in 1..Len(d) : d[i] = HASH /\ ~TokenizeScan(d, i).inQuotes}

\* The position of the first newline of d at or after position i, or
\* Len(d) + 1
LineEnd(d, i) == IF Find(d, NL, i) = 0 THEN Len(d) + 1 ELSE Find(d, NL, i)

\* d without the characters from position i up to, not including, the next
\* newline
StripComment(d, i) == SubSeq(d, 1, i - 1) \o SubSeq(d, LineEnd(d, i), Len(d))

\* d with the characters after position i up to the next newline replaced
\* by a character that no document holds
MarkComment(d, i) ==
    [j \in 1..Len(d) |-> IF j > i /\ j < LineEnd(d, i) THEN "z" ELSE d[j]]

\* C9: comment stripping.  Deleting the characters from an unquoted hash up
\* to the next newline leaves the tokens unchanged (kinds, texts, lines and
\* columns) and so the parsed tree; the text before the hash is still a
\* token; and no character of the comment is in any token: the tokens do
\* not change when the comment's characters do.
CommentStripping ==
    (pc = "loop" /\ idx = 1) =>
        \A i \in UnquotedHashes(data) :
            /\ Tokenize(StripComment(data, i)) = tokens
            /\ Tokenize(MarkComment(data, i)) = tokens
            /\ \A t \in 1..Len(tokens) : ~Contains(tokens[t].text, "z")
            /\ Parse(StripComment(data, i), INVALID) = Parse(data, INVALID)

\* A document in which text precedes an unquoted hash on its line and a
\* comment of at least one character follows it has been tokenized, and the
\* text is a token
CommentStrippingWitness ==
    /\ pc = "loop"
    /\ idx = 1
    /\ \E i \in UnquotedHashes(data) :
          /\ i > 1
          /\ data[i - 1] = "a"
          /\ LineEnd(data, i) > i + 1
          /\ LineEnd(data, i) <= Len(data)
          /\ \E t \in 1..Len(tokens) : tokens[t].text = <<"a">>

\* The children of n that operator[]( key ) may return: the keys named key
KeyMatches(n, key) ==
    {i \in 1..Len(n.children) :
        n.children[i].type = "Key" /\ n.children[i].text = key}

\* C10: lookups fail soft.  Indexing by position returns child i when i is
\* less than the child count and the sentinel otherwise; indexing by key
\* returns the first child that is a Key with exactly that text and the
\* sentinel when there is none; neither changes any node.
LookupsFailSoft ==
    [][ /\ (last'.op = "IndexByPosition") =>
            LET n == Deref(last'.recv)
                i == last'.arg
            IN /\ ref' = IF i < Len(n.children)
                         THEN [obj |-> last'.recv.obj,
                               path |-> last'.recv.path \o <<i + 1>>]
                         ELSE InvalidRef
               /\ doc' = doc
               /\ INVALID' = INVALID
        /\ (last'.op = "IndexByKey") =>
            LET n == Deref(last'.recv)
                m == KeyMatches(n, last'.arg)
            IN /\ ref' = IF m = {} THEN InvalidRef
                         ELSE [obj |-> last'.recv.obj,
                               path |-> last'.recv.path
                                 \o <<CHOOSE i \in m : \A j \in m : i <= j>>]
               /\ doc' = doc
               /\ INVALID' = INVALID
      ]_vars

\* A lookup by key has skipped a child that is no key but has the text
\* asked for, and has returned a later child
LookupsFailSoftWitness ==
    /\ last.op = "IndexByKey"
    /\ ~IsInvalid(ref)
    /\ ref.path = last.recv.path \o <<2>>
    /\ Deref(last.recv).children[1].type # "Key"
    /\ Deref(last.recv).children[1].text = last.arg
    /\ Deref(ref).type = "Key"

\* The shape of the subtree of n: a value has no child, a key has a child,
\* and the children of a key or group are not two or more values
RECURSIVE Canonical(_)
Canonical(n) ==
    /\ n.type = "Value" => Len(n.children) = 0
    /\ n.type = "Key" => Len(n.children) >= 1
    /\ (n.type \in {"Key", "Group"} /\ Len(n.children) >= 2)
          => \E i \in 1..Len(n.children) : n.children[i].type # "Value"
    /\ \A i \in 1..Len(n.children) : Canonical(n.children[i])

\* C11: canonical shape.  In every tree returned by a successful Parse,
\* every Value node has zero children, every Key node has at least one
\* child, and no Key or Group node has two or more children that are all
\* Value nodes.
CanonicalShape == (pc = "returned" /\ LastParsed.ok) => Canonical(doc)

\* A successful Parse has merged three values under a key below a key
CanonicalShapeWitness ==
    /\ pc = "returned"
    /\ Len(parsed) = 1
    /\ LastParsed.ok
    /\ input.family = "paragraph"
    /\ input.nested
    /\ Len(input.cols) = 2
    /\ doc.children[1].type = "Key"
    /\ ParagraphKey(input).type = "Key"
    /\ Len(ParagraphKey(input).children) = 1
    /\ ParagraphKey(input).children[1].text = ParagraphText(2)

Anchors(stack, token) ==
    {j \in 1..Len(stack) :
        /\ stack[j].token.column < token.column
        /\ IF token.type = "Text"
           THEN stack[j].token.type \in {"Colon", "None"}
           ELSE stack[j].token.type = "Text"}

\* The node a token creates
CreatedNode(token) ==
    IF token.type = "Text"
    THEN [type |-> "Key", text |-> token.text, children |-> <<>>]
    ELSE [type |-> "Group", text |-> <<>>, children |-> <<>>]

\* C13: anchor selection.  For each token, the new node is appended as the
\* last child of the owning node of the topmost stack frame whose kind
\* matches and whose column is strictly less than the token's column; every
\* frame above that frame is removed, the matching frame and the frames
\* below it stay, and a frame for the new token is pushed on top.  A Text
\* token creates a Key node with the token's text, a Colon token a Group.
AnchorSelection ==
    [][ (pc = "loop" /\ pc' = "loop" /\ idx' = idx + 1) =>
          LET token == tokens[idx]
              A == Anchors(st.stack, token)
          IN /\ A # {}
             /\ LET m == CHOOSE j \in A : \A k \in A : k <= j
                    owner == st.stack[m].node
                    before == NodeAt(st.root, owner)
                IN /\ st'.stack =
                        Append(SubSeq(st.stack, 1, m),
                               [token |-> token,
                                node |-> Append(owner, Len(before.children) + 1)])
                   /\ st'.root =
                        ReplaceAt(st.root, owner,
                            [before EXCEPT
                               !.children = Append(@, CreatedNode(token))])
      ]_vars

\* Tokens have been processed, frames have been removed and the stack
\* still holds frames above the root frame
AnchorSelectionWitness ==
    /\ pc = "loop"
    /\ idx >= 5
    /\ ~st.failed
    /\ Len(st.stack) < idx
    /\ Len(st.stack) >= 3

\* s without the backslashes that precede a double quote
RECURSIVE Unescape(_)
Unescape(s) ==
    IF s = <<>> THEN s
    ELSE IF Len(s) >= 2 /\ s[1] = BSLASH /\ s[2] = QUOTE
    THEN <<QUOTE>> \o Unescape(SubSeq(s, 3, Len(s)))
    ELSE <<s[1]>> \o Unescape(Tail(s))

\* d is one token in double quotes in which every inner double quote is
\* preceded by a backslash, and there is one
EscapedQuoteDoc(d) ==
    /\ Len(d) >= 4
    /\ d[1] = QUOTE
    /\ d[Len(d)] = QUOTE
    /\ d[Len(d) - 1] # BSLASH
    /\ \A i \in 2..(Len(d) - 1) : d[i] = QUOTE => (i > 2 /\ d[i - 1] = BSLASH)
    /\ \E i \in 2..(Len(d) - 1) : d[i] = QUOTE
    /\ ~Contains(d, NL)

\* C14: escaped quotes in quoted tokens.  Inside a token that starts with
\* a double quote, a double quote preceded by a backslash does not close
\* the token and is in the emitted token text as a literal double quote
\* with the backslash removed; no backslash that escaped a quote remains in
\* the token text.
EscapedQuotes ==
    (pc = "loop" /\ idx = 1 /\ EscapedQuoteDoc(data)) =>
        tokens = <<[type |-> "Text",
                    text |-> Unescape(SubSeq(data, 2, Len(data) - 1)),
                    column |-> 1, line |-> 1]>>

\* The lines of s: the texts between its newlines
RECURSIVE SplitLines(_)
SplitLines(s) ==
    LET n == Find(s, NL, 1)
    IN IF n = 0 THEN <<s>>
       ELSE <<SubSeq(s, 1, n - 1)>> \o SplitLines(SubSeq(s, n + 1, Len(s)))

\* The column of the opening quote when d is spaces and then one token in
\* double quotes, without inner double quote, holding a newline; 0 otherwise
QuotedColumn(d) ==
    LET Q == {i \in 1..Len(d) : d[i] = QUOTE}
        first == CHOOSE c \in Q : \A q \in Q : c <= q
    IN IF /\ Cardinality(Q) = 2
          /\ d[Len(d)] = QUOTE
          /\ \A i \in 1..(first - 1) : d[i] = SP
          /\ \E i \in (first + 1)..Len(d) : d[i] = NL
       THEN first
       ELSE 0

\* out is raw with, on every line after the first, at most c leading
\* characters removed, all of them spaces
Dedented(raw, text, c) ==
    LET r == SplitLines(raw)
        o == SplitLines(text)
    IN /\ Len(o) = Len(r)
       /\ o[1] = r[1]
       /\ \A j \in 2..Len(r) :
             LET k == Len(r[j]) - Len(o[j])
             IN /\ k \in 0..c
                /\ o[j] = SubSeq(r[j], k + 1, Len(r[j]))
                /\ \A i \in 1..k : r[j][i] = SP

\* C15: multi-line dedent.  For a quoted token whose opening quote is at
\* column c, every line of the token's content after the first loses at
\* most c leading characters and only space characters are removed; a
\* continuation line with fewer than c leading spaces keeps all of its
\* non-space characters.
DedentRemovesOnlySpaces ==
    (pc = "loop" /\ idx = 1 /\ QuotedColumn(data) > 0) =>
        LET c == QuotedColumn(data)
        IN /\ Len(tokens) = 1
           /\ tokens[1].type = "Text"
           /\ tokens[1].column = c
           /\ Dedented(SubSeq(data, c + 1, Len(data) - 1), tokens[1].text, c)

\* s holds a run of spaces whose count wrapped around
HasWrappedSpaces(s) ==
    \E i \in 1..Len(s) : s[i] \in {WrappedSpaces(-2)[1], WrappedSpaces(-1)[1]}

\* C16: Serialize has no failure path on trees built by this system.  For
\* every tree returned by Parse and every tree built with MakeGroup,
\* MakeKey, MakeValue and AddKey, AddValue, AddGroup (a root that directly
\* holds two or more Group children included), the unsigned 32-bit padding
\* count depth - 2 computed before a non-first Group sibling never wraps
\* around: depth >= 2 whenever it is computed.
PaddingNeverWraps ==
    /\ last.op = "Serialize" => ~HasWrappedSpaces(last.arg)
    /\ pc = "serialized" => ~HasWrappedSpaces(out)

\* The kind of the frame at position j of a well-formed stack
FrameKind(j) == IF j = 1 THEN "None" ELSE IF j % 2 = 0 THEN "Text" ELSE "Colon"

\* C17: frame-stack invariant.  After every successfully processed token
\* of Parse, the stack is non-empty, its bottom frame is the synthetic root
\* frame (column 0, kind None), frame columns are strictly increasing from
\* bottom to top, and frame kinds alternate root, Text, Colon, Text, Colon,
\* ... from bottom to top.
FrameStackInvariant ==
    (pc \in {"loop", "returned"} /\ ~st.failed) =>
        /\ Len(st.stack) >= 1
        /\ st.stack[1].token = RootToken
        /\ st.stack[1].node = <<>>
        /\ \A j \in 1..Len(st.stack) : st.stack[j].token.type = FrameKind(j)
        /\ \A j \in 2..Len(st.stack) :
              st.stack[j - 1].token.column < st.stack[j].token.column

\* Tokens have been processed, frames have been removed, and a Text frame
\* is on a Colon frame on a Text frame on the root frame
FrameStackInvariantWitness ==
    /\ pc = "loop"
    /\ ~st.failed
    /\ Len(st.stack) = 4
    /\ idx > 5
    /\ st.stack[4].token.type = "Text"
    /\ st.stack[4].token.line > st.stack[3].token.line

\* C18: Parse fails exactly when some Colon token is processed while no
\* Text frame with a strictly smaller column is on the stack; a Text token
\* never causes a parse failure, because the root frame is on the stack
\* whenever a Text token is processed and every token column is at least 1.
\* After a failure no further token is processed and no partially built
\* tree is returned.
FailsOnUnanchoredColon ==
    [][ (pc = "loop" /\ idx <= Len(tokens)) =>
          LET token == tokens[idx]
              unanchored ==
                 /\ token.type = "Colon"
                 /\ ~\E j \in 1..Len(st.stack) :
                        /\ st.stack[j].token.type = "Text"
                        /\ st.stack[j].token.column < token.column
          IN /\ token.column >= 1
             /\ token.type = "Text" =>
                   /\ st.stack[1].token = RootToken
                   /\ ~st'.failed
             /\ IF unanchored
                THEN /\ st'.failed
                     /\ pc' = "returned"
                     /\ idx' = idx
                     /\ ~parsed'[Len(parsed')].ok
                     /\ doc' = INVALID
                ELSE /\ ~st'.failed
                     /\ pc' = "loop"
                     /\ idx' = idx + 1
      ]_vars

\* A Parse has failed at a colon after it has built a part of the tree and
\* before the last token, and has returned the empty sentinel
FailsOnUnanchoredColonWitness ==
    /\ pc = "returned"
    /\ Len(parsed) = 1
    /\ ~LastParsed.ok
    /\ st.failed
    /\ idx > 1
    /\ idx < Len(tokens)
    /\ tokens[idx].type = "Colon"
    /\ Len(st.root.children) >= 1
    /\ doc = DefaultNode

====
